---- MODULE Spec2Model ----
(***************************************************************************)
(* Model of scripts/download_full_text.py: the resumable batch fetcher     *)
(* (download_full_text, call_api, read_id_chunk) and the collection merger *)
(* (merge_full_text).                                                      *)
(*                                                                         *)
(* The temp directory is the durable state: the progress log               *)
(* (log_exists, disk_log) and the batch files (files).  Everything else    *)
(* is the state of one invocation, or history kept for the properties.     *)
(***************************************************************************)
EXTENDS Integers, Sequences, FiniteSets, TLC

\* ------------------------------------------------------------------ bounds
\* rows of the identifier source (ids_file)
NumIds == 3
\* largest --document_batch an invocation is given
MaxBatch == 2
\* invocations of download_full_text on the same temp directory
MaxRuns == 3
\* batch file names the merger's directory can hold (MergeSpec)
MaxFiles == 2
\* top-level children of a batch file's root (MergeSpec)
MaxChildren == 2

VARIABLES
    log_exists,       \* whether temp_dir/log_file exists
    disk_log,         \* the rows of temp_dir/log_file (below its header)
    files,            \* temp_dir/batch_<idx>.xml, by idx
    pc,               \* position of download_full_text
    document_batch,   \* chunk size of the current invocation
    log,              \* the DataFrame `log` loaded at start-up
    idx,              \* chunk index of the enumerate() loop
    response,         \* body returned by call_api for the current chunk
    root,             \* tree parsed from the response
    stderr,           \* chunk indices a diagnostic was written for, this run
    \* ---- history, read only by the properties
    runs,             \* invocations started so far
    ended,            \* how the last invocation ended
    failed,           \* chunk indices whose request or processing failed, this run
    calls,            \* chunk indices call_api was invoked for, this run
    clean,            \* every request of this run returned a parsable body
    prev,             \* chunk size and outcome of the invocation before this one;
                      \* if it was killed with this one's chunk size, the chunks
                      \* it had written and gone past (behind)
    sizes,            \* chunk sizes used by the invocations so far
    requested,        \* identifiers sent in a request that was answered
    pre,              \* the batch files as they were when the chunk's cycle began
    parsed,           \* chunk indices whose response parsed, this run
    written,          \* chunk indices whose batch file was written, this run
    \* ---- merge_full_text
    mpc,              \* position of merge_full_text
    batch_files,      \* the files rglob yields, in the order it yields them
    pos,              \* how many of them the loop has consumed
    xml_file,         \* what has been written to the output file
    first_file,       \* the flag first_file
    merge_stderr,     \* the files a diagnostic was written for, in order
    \* ---- the rate limit wrapped around call_api
    rpc,              \* position of one invocation of the wrapped call_api
    num_calls,        \* the limiter's counter num_calls
    elapsed,          \* clock() - last_reset, as far as the limiter tells it apart
    period_remaining, \* the sleep length the RateLimitException carries
    sent              \* requests sent since the limiter's last reset

fetch_vars == <<log_exists, disk_log, files, pc, document_batch, log, idx,
                response, root, stderr, runs, ended, failed, calls, clean,
                prev, sizes, requested, pre, parsed, written>>

merge_vars == <<mpc, batch_files, pos, xml_file, first_file, merge_stderr>>

rate_vars == <<rpc, num_calls, elapsed, period_remaining, sent>>

vars == <<fetch_vars, merge_vars, rate_vars>>

\* ------------------------------------------------------------- data model
Min(a, b) == IF a < b THEN a ELSE b

ToSet(s) == {s[i] : i \in DOMAIN s}

\* the PMCID column of ids_file
ids_file == [i \in 1..NumIds |-> i]

\* batch indices a run can produce (chunk size 1 gives the most)
Indices == 0..(NumIds - 1)

\* file and body contents
Absent == [kind |-> "absent"]
Empty == [kind |-> "empty"]
Malformed == [kind |-> "malformed"]
NoTree == [children |-> <<>>, parsed |-> FALSE]

Header == << [tag |-> "source", text |-> 0], [tag |-> "date", text |-> 0] >>

Document(id) == [tag |-> "document", text |-> id]

\* the body the remote service answers a query with: a collection with its
\* header and one document record per identifier asked for
Collection(ids) ==
    [kind |-> "xml", pretty |-> FALSE,
     children |-> Header \o [i \in 1..Len(ids) |-> Document(ids[i])]]

\* read_id_chunk: the i-th window of batch_size rows, the last one shorter
read_id_chunk(batch_size, i) ==
    SubSeq(ids_file, i * batch_size + 1, Min((i + 1) * batch_size, NumIds))

NumChunks(batch_size) == (NumIds + batch_size - 1) \div batch_size

\* the column log.pmcid as a set
Pmcids(df) == {df[i].pmcid : i \in DOMAIN df}

\* mutant: the difference taken the other way round
already_seen_reversed(chunk, df) == Pmcids(df) \ ToSet(chunk)

\* set(pmcid_batch_df.PMCID.values).difference(set(log.pmcid.values))
already_seen(chunk, df) == ToSet(chunk) \ Pmcids(df)

\* ET.fromstring: a tree, or XMLSyntaxError
ParseOK(body) == body.kind = "xml"

fromstring(body) == [children |-> body.children, parsed |-> TRUE]

\* mutant: the serialization loses the last child of the root
tostring_truncated(tree) ==
    [kind |-> "xml", pretty |-> TRUE,
     children |-> SubSeq(tree.children, 1, Len(tree.children) - 1)]

\* ET.tostring(root, pretty_print=True)
tostring(tree) == [kind |-> "xml", pretty |-> TRUE, children |-> tree.children]

\* DataFrame.assign(batch=[idx]*n, pmcid=ids) on the frame loaded at start-up:
\* a frame without rows takes the length of the assigned lists, a frame with
\* rows accepts only lists of its own length (ValueError otherwise)
AssignOK(df, ids) == Len(df) = 0 \/ Len(df) = Len(ids)

Assign(df, i, ids) == [k \in 1..Len(ids) |-> [batch |-> i, pmcid |-> ids[k]]]

Chunk == read_id_chunk(document_batch, idx)

\* ------------------------------------------------------------------- Init
\* no invocation of download_full_text has run or is running
FetchIdle ==
    /\ log_exists = FALSE
    /\ disk_log = <<>>
    /\ pc = "idle"
    /\ document_batch = 1
    /\ log = <<>>
    /\ idx = 0
    /\ response = Malformed
    /\ root = NoTree
    /\ stderr = {}
    /\ runs = 0
    /\ ended = "none"
    /\ failed = {}
    /\ calls = {}
    /\ clean = TRUE
    /\ prev = [batch |-> 0, clean |-> FALSE, killed |-> FALSE, behind |-> {}]
    /\ sizes = {}
    /\ requested = {}
    /\ pre = files
    /\ parsed = {}
    /\ written = {}

\* merge_full_text has not been called
MergeIdle ==
    /\ mpc = "idle"
    /\ batch_files = <<>>
    /\ pos = 0
    /\ xml_file = <<>>
    /\ first_file = TRUE
    /\ merge_stderr = <<>>

\* lines 16-17: the decorators are applied when the module is loaded:
\* last_reset = clock(), num_calls = 0
RateIdle ==
    /\ rpc = "idle"
    /\ num_calls = 0
    /\ elapsed = 0
    /\ period_remaining = 0
    /\ sent = 0

\* a temp directory that does not exist yet
Init ==
    /\ files = [i \in Indices |-> Absent]
    /\ FetchIdle
    /\ MergeIdle
    /\ RateIdle

\* ------------------------------------------------------ download_full_text
\* mutant: the empty log is written whether or not the file exists
Start_Recreate ==
    /\ pc = "idle"
    /\ mpc = "idle"
    /\ runs < MaxRuns
    /\ \E k \in 1..MaxBatch :
         /\ document_batch' = k
         /\ sizes' = sizes \cup {k}
         /\ prev' = [batch |-> document_batch,
                     clean |-> runs > 0 /\ ended = "returned" /\ clean,
                     killed |-> ended = "killed",
                     behind |-> IF ended = "killed" /\ k = document_batch
                                  THEN written \ {idx} ELSE {}]
    /\ log' = <<>>
    /\ log_exists' = TRUE
    /\ disk_log' = <<>>
    /\ pc' = "loop"
    /\ idx' = 0
    /\ runs' = runs + 1
    /\ ended' = "running"
    /\ stderr' = {}
    /\ failed' = {}
    /\ calls' = {}
    /\ clean' = TRUE
    /\ pre' = files
    /\ written' = {}
    /\ parsed' = {}
    /\ UNCHANGED <<files, response, root, requested>>
    /\ UNCHANGED <<merge_vars, rate_vars>>


\* lines 54-69: create the directory, create or load the log; the program
\* is one process, and is not started again once its merge has begun
Start ==
    /\ pc = "idle"
    /\ mpc = "idle"
    /\ runs < MaxRuns
    /\ \E k \in 1..MaxBatch :
         /\ document_batch' = k
         /\ sizes' = sizes \cup {k}
         /\ prev' = [batch |-> document_batch,
                     clean |-> runs > 0 /\ ended = "returned" /\ clean,
                     killed |-> ended = "killed",
                     behind |-> IF ended = "killed" /\ k = document_batch
                                  THEN written \ {idx} ELSE {}]
    /\ IF log_exists
         THEN /\ log' = disk_log
              /\ UNCHANGED <<log_exists, disk_log>>
         ELSE /\ log' = <<>>
              /\ log_exists' = TRUE
              /\ disk_log' = <<>>
    /\ pc' = "loop"
    /\ idx' = 0
    /\ runs' = runs + 1
    /\ ended' = "running"
    /\ stderr' = {}
    /\ failed' = {}
    /\ calls' = {}
    /\ clean' = TRUE
    /\ pre' = files
    /\ written' = {}
    /\ parsed' = {}
    /\ UNCHANGED <<files, response, root, requested>>
    /\ UNCHANGED <<merge_vars, rate_vars>>

\* line 72: the chunk generator is exhausted, the function returns
Return ==
    /\ pc = "loop"
    /\ idx >= NumChunks(document_batch)
    /\ pc' = "idle"
    /\ ended' = "returned"
    /\ UNCHANGED <<log_exists, disk_log, files, document_batch, log, idx,
                   response, root, stderr, runs, failed, calls, clean, prev,
                   sizes, requested, pre,
                   written, parsed>>
    /\ UNCHANGED <<merge_vars, rate_vars>>

\* mutant: the batch file is opened before the membership test
Skip_OpensFile ==
    /\ pc = "loop"
    /\ idx < NumChunks(document_batch)
    /\ already_seen(Chunk, log) = {}
    /\ idx' = idx + 1
    /\ files' = [files EXCEPT ![idx] = Empty]
    /\ UNCHANGED <<log_exists, disk_log, pc, document_batch, log,
                   response, root, stderr, runs, ended, failed, calls, clean,
                   prev, sizes, requested, pre,
                   written, parsed>>
    /\ UNCHANGED <<merge_vars, rate_vars>>


\* lines 75-82: every identifier of the chunk is in the loaded log
Skip ==
    /\ pc = "loop"
    /\ idx < NumChunks(document_batch)
    /\ already_seen(Chunk, log) = {}
    /\ idx' = idx + 1
    /\ UNCHANGED <<log_exists, disk_log, files, pc, document_batch, log,
                   response, root, stderr, runs, ended, failed, calls, clean,
                   prev, sizes, requested, pre,
                   written, parsed>>
    /\ UNCHANGED <<merge_vars, rate_vars>>

\* lines 75-84: some identifier is not in the loaded log, build the query
BuildQuery ==
    /\ pc = "loop"
    /\ idx < NumChunks(document_batch)
    /\ already_seen(Chunk, log) # {}
    /\ pc' = "call"
    /\ pre' = files
    /\ UNCHANGED <<log_exists, disk_log, files, document_batch, log, idx,
                   response, root, stderr, runs, ended, failed, calls, clean,
                   prev, sizes, requested,
                   written, parsed>>
    /\ UNCHANGED <<merge_vars, rate_vars>>

\* lines 18-24, 85: call_api answers with status 200; the body may or may
\* not be XML
CallReturns ==
    /\ pc = "call"
    /\ \E body \in {Collection(Chunk), Malformed} :
         /\ response' = body
         /\ clean' = (clean /\ ParseOK(body))
    /\ calls' = calls \cup {idx}
    /\ requested' = requested \cup ToSet(Chunk)
    /\ pc' = "open"
    /\ UNCHANGED <<log_exists, disk_log, files, document_batch, log, idx,
                   root, stderr, runs, ended, failed, prev, sizes, pre,
                   written, parsed>>
    /\ UNCHANGED <<merge_vars, rate_vars>>

\* lines 19-22, 85: requests.get raises, or the status is not 200 and
\* call_api raises; line 85 is outside the try block, so the exception
\* leaves download_full_text
CallRaises ==
    /\ pc = "call"
    /\ calls' = calls \cup {idx}
    /\ failed' = failed \cup {idx}
    /\ clean' = FALSE
    /\ pc' = "idle"
    /\ ended' = "raised"
    /\ UNCHANGED <<log_exists, disk_log, files, document_batch, log, idx,
                   response, root, stderr, runs, prev, sizes, requested, pre,
                   written, parsed>>
    /\ UNCHANGED <<merge_vars, rate_vars>>

\* lines 87-88: open(batch_file_path, "wb") creates or truncates the file
OpenBatchFile ==
    /\ pc = "open"
    /\ files' = [files EXCEPT ![idx] = Empty]
    /\ pc' = "parse"
    /\ UNCHANGED <<log_exists, disk_log, document_batch, log, idx, response,
                   root, stderr, runs, ended, failed, calls, clean, prev,
                   sizes, requested, pre,
                   written, parsed>>
    /\ UNCHANGED <<merge_vars, rate_vars>>

\* lines 90-92: the body parses
Parse ==
    /\ pc = "parse"
    /\ ParseOK(response)
    /\ root' = fromstring(response)
    /\ pc' = "write"
    /\ parsed' = parsed \cup {idx}
    /\ UNCHANGED <<log_exists, disk_log, files, document_batch, log, idx,
                   response, stderr, runs, ended, failed, calls, clean, prev,
                   sizes, requested, pre,
                   written>>
    /\ UNCHANGED <<merge_vars, rate_vars>>

\* lines 90-92, 109-116: XMLSyntaxError, the except block writes the
\* diagnostic, the with block closes the file, the loop goes on
ParseRaises ==
    /\ pc = "parse"
    /\ ~ParseOK(response)
    /\ stderr' = stderr \cup {idx}
    /\ failed' = failed \cup {idx}
    /\ idx' = idx + 1
    /\ pc' = "loop"
    /\ UNCHANGED <<log_exists, disk_log, files, document_batch, log, response,
                   root, runs, ended, calls, clean, prev, sizes, requested,
                   pre,
                   written, parsed>>
    /\ UNCHANGED <<merge_vars, rate_vars>>

\* mutant: the write is left for after the log append
WriteBatchFile_Deferred ==
    /\ pc = "write"
    /\ pc' = "append"
    /\ UNCHANGED <<log_exists, disk_log, files, document_batch, log, idx,
                   response, root, stderr, runs, ended, failed, calls, clean,
                   prev, sizes, requested, pre,
                   written, parsed>>
    /\ UNCHANGED <<merge_vars, rate_vars>>

\* mutant: the file name does not depend on the chunk index
WriteBatchFile_FixedName ==
    /\ pc = "write"
    /\ files' = [files EXCEPT ![0] = tostring(root)]
    /\ pc' = "append"
    /\ written' = written \cup {idx}
    /\ UNCHANGED <<log_exists, disk_log, document_batch, log, idx, response,
                   root, stderr, runs, ended, failed, calls, clean, prev,
                   sizes, requested, pre,
                   parsed>>
    /\ UNCHANGED <<merge_vars, rate_vars>>


\* line 94: xml_file.write(ET.tostring(root, pretty_print=True))
WriteBatchFile ==
    /\ pc = "write"
    /\ files' = [files EXCEPT ![idx] = tostring(root)]
    /\ pc' = "append"
    /\ written' = written \cup {idx}
    /\ UNCHANGED <<log_exists, disk_log, document_batch, log, idx, response,
                   root, stderr, runs, ended, failed, calls, clean, prev,
                   sizes, requested, pre,
                   parsed>>
    /\ UNCHANGED <<merge_vars, rate_vars>>

\* mutant: the frame is read back from the file after the append
AppendLog_Reloads ==
    /\ pc = "append"
    /\ AssignOK(log, Chunk)
    /\ disk_log' = disk_log \o Assign(log, idx, Chunk)
    /\ idx' = idx + 1
    /\ pc' = "loop"
    /\ root' = NoTree
    /\ log' = disk_log'
    /\ UNCHANGED <<log_exists, files, document_batch, response, stderr,
                   runs, ended, failed, calls, clean, prev, sizes, requested,
                   pre,
                   written, parsed>>
    /\ UNCHANGED <<merge_vars, rate_vars>>


\* lines 97-107: log.assign(...).to_csv(mode="a", header=False)
AppendLog ==
    /\ pc = "append"
    /\ AssignOK(log, Chunk)
    /\ disk_log' = disk_log \o Assign(log, idx, Chunk)
    /\ idx' = idx + 1
    /\ pc' = "loop"
    /\ root' = NoTree
    /\ UNCHANGED <<log_exists, files, document_batch, log, response, stderr,
                   runs, ended, failed, calls, clean, prev, sizes, requested,
                   pre,
                   written, parsed>>
    /\ UNCHANGED <<merge_vars, rate_vars>>

\* lines 97-102, 109-116: assign raises ValueError, nothing is appended, the
\* except block writes the diagnostic, the loop goes on
AppendRaises ==
    /\ pc = "append"
    /\ ~AssignOK(log, Chunk)
    /\ stderr' = stderr \cup {idx}
    /\ failed' = failed \cup {idx}
    /\ idx' = idx + 1
    /\ pc' = "loop"
    /\ root' = NoTree
    /\ UNCHANGED <<log_exists, disk_log, files, document_batch, log, response,
                   runs, ended, calls, clean, prev, sizes, requested, pre,
                   written, parsed>>
    /\ UNCHANGED <<merge_vars, rate_vars>>

\* the process is terminated from outside at any point of a run
Kill ==
    /\ pc # "idle"
    /\ pc' = "idle"
    /\ ended' = "killed"
    /\ clean' = FALSE
    /\ root' = NoTree
    /\ UNCHANGED <<log_exists, disk_log, files, document_batch, log, idx,
                   response, stderr, runs, failed, calls, prev, sizes,
                   requested, pre,
                   written, parsed>>
    /\ UNCHANGED <<merge_vars, rate_vars>>

Next ==
    \/ Start
    \/ Return
    \/ Skip
    \/ BuildQuery
    \/ CallReturns
    \/ CallRaises
    \/ OpenBatchFile
    \/ Parse
    \/ ParseRaises
    \/ WriteBatchFile
    \/ AppendLog
    \/ AppendRaises
    \/ Kill

Spec == Init /\ [][Next]_vars

\* --------------------------------------------------------- merge_full_text
\* time.strftime("%Y/%m/%d"): the date of the merge run, as a number that
\* no batch file carries
today == 1

\* what xml_file.write receives
OpenTag == [tag |-> "<collection>", text |-> 0, pretty |-> FALSE]
CloseTag == [tag |-> "</collection>", text |-> 0, pretty |-> FALSE]

\* ET.tostring(tag, pretty_print=True) of one child element
element_tostring(c) == [tag |-> c.tag, text |-> c.text, pretty |-> TRUE]

\* mutant: root.find("document"), the first document record only
find_document(tree) ==
    LET docs == SelectSeq(tree.children, LAMBDA c : c.tag = "document")
    IN  IF docs = <<>> THEN <<>> ELSE <<docs[1]>>

\* root.xpath("document"): the document children of the root, in order
xpath_document(tree) == SelectSeq(tree.children, LAMBDA c : c.tag = "document")

\* mutant: the date child is written with the text the file carries
RECURSIVE header_from_stale(_, _)
header_from_stale(children, k) ==
    IF k > Len(children) THEN <<>>
    ELSE IF children[k].tag = "document" THEN <<>>
         ELSE <<element_tostring(children[k])>> \o header_from_stale(children, k + 1)

\* lines 144-152: the children written as the header, from the k-th on: the
\* date gets today's date, the loop breaks at the first document record
RECURSIVE header_from(_, _)
header_from(children, k) ==
    IF k > Len(children) THEN <<>>
    ELSE LET tag == IF children[k].tag = "date"
                      THEN [children[k] EXCEPT !.text = today]
                      ELSE children[k]
         IN  IF tag.tag = "document" THEN <<>>
             ELSE <<element_tostring(tag)>> \o header_from(children, k + 1)

\* the elements of a sequence, each one serialized
Serialized(s) == [k \in DOMAIN s |-> element_tostring(s[k])]

\* the state of the loop of lines 134-166
MergeState(out, first, err) ==
    [out |-> out, first_file |-> first, err |-> err, raised |-> FALSE]

\* mutant: the except clause does not match the parser's exception, which
\* then leaves merge_full_text
merge_file_uncaught(st, file) ==
    IF ParseOK(files[file])
      THEN LET tree == fromstring(files[file])
           IN  [st EXCEPT
                  !.out = @ \o (IF st.first_file
                                  THEN <<OpenTag>> \o header_from(tree.children, 1)
                                  ELSE <<>>)
                            \o Serialized(xpath_document(tree)),
                  !.first_file = FALSE]
      ELSE [st EXCEPT !.raised = TRUE]

\* mutant: first_file is cleared on the failure path too
merge_file_flag_cleared(st, file) ==
    IF ParseOK(files[file])
      THEN LET tree == fromstring(files[file])
           IN  [st EXCEPT
                  !.out = @ \o (IF st.first_file
                                  THEN <<OpenTag>> \o header_from(tree.children, 1)
                                  ELSE <<>>)
                            \o Serialized(xpath_document(tree)),
                  !.first_file = FALSE]
      ELSE [st EXCEPT !.err = Append(@, file), !.first_file = FALSE]

\* lines 135-166: one iteration of the loop, on the batch file named file
merge_file(st, file) ==
    IF ParseOK(files[file])
      THEN LET tree == fromstring(files[file])
           IN  [st EXCEPT
                  !.out = @ \o (IF st.first_file
                                  THEN <<OpenTag>> \o header_from(tree.children, 1)
                                  ELSE <<>>)
                            \o Serialized(xpath_document(tree)),
                  !.first_file = FALSE]
      ELSE [st EXCEPT !.err = Append(@, file)]

\* lines 134-166: the loop over the files order[k..], from state st
RECURSIVE merge_loop(_, _, _)
merge_loop(st, order, k) ==
    IF k > Len(order) \/ st.raised THEN st
    ELSE merge_loop(merge_file(st, order[k]), order, k + 1)

\* the orders in which rglob can yield the files of set S
Orders(S) ==
    {o \in [1..Cardinality(S) -> S] : \A a, b \in DOMAIN o : o[a] = o[b] => a = b}

\* lines 129-132: list the directory, open (truncate) the output
StartMerge ==
    /\ mpc = "idle"
    /\ pc = "idle"
    /\ batch_files' \in Orders({i \in DOMAIN files : files[i].kind # "absent"})
    /\ xml_file' = <<>>
    /\ first_file' = TRUE
    /\ pos' = 0
    /\ merge_stderr' = <<>>
    /\ mpc' = "loop"
    /\ UNCHANGED <<fetch_vars, rate_vars>>

\* lines 134-166: the next file of the listing
MergeFile ==
    /\ mpc = "loop"
    /\ pos < Len(batch_files)
    /\ LET st == merge_file(MergeState(xml_file, first_file, merge_stderr),
                            batch_files[pos + 1])
       IN  /\ xml_file' = st.out
           /\ first_file' = st.first_file
           /\ merge_stderr' = st.err
           /\ mpc' = IF st.raised THEN "raised" ELSE "loop"
    /\ pos' = pos + 1
    /\ UNCHANGED <<batch_files>>
    /\ UNCHANGED <<fetch_vars, rate_vars>>

\* line 168: the listing is exhausted, write the closing tag
CloseCollection ==
    /\ mpc = "loop"
    /\ pos = Len(batch_files)
    /\ xml_file' = Append(xml_file, CloseTag)
    /\ mpc' = "done"
    /\ UNCHANGED <<batch_files, pos, first_file, merge_stderr>>
    /\ UNCHANGED <<fetch_vars, rate_vars>>

\* the roots a batch file can hold: up to MaxChildren children, each a
\* header field or a document record
Tags == {"source", "date", "document"}

Shapes == UNION {[1..n -> Tags] : n \in 0..MaxChildren}

\* the file named i with root children of the given tags; the k-th child
\* of file i has a text no other child has, and none has today's date
BatchFile(i, shape) ==
    [kind |-> "xml", pretty |-> TRUE,
     children |-> [k \in DOMAIN shape |->
                     [tag |-> shape[k], text |-> today + i * MaxChildren + k]]]

\* any temp directory of up to MaxFiles *.xml files, each one parsable or not
MergeInit ==
    /\ \E content \in [0..(MaxFiles - 1) -> {<<"absent">>, <<"empty">>} \cup Shapes] :
         files = [i \in 0..(MaxFiles - 1) |->
                    IF content[i] = <<"absent">> THEN Absent
                    ELSE IF content[i] = <<"empty">> THEN Empty
                    ELSE BatchFile(i, content[i])]
    /\ FetchIdle
    /\ MergeIdle
    /\ RateIdle

MergeNext ==
    \/ StartMerge
    \/ MergeFile
    \/ CloseCollection

MergeSpec == MergeInit /\ [][MergeNext]_vars

\* ------------------------------------------------- properties of the fetcher
\* the rows the current invocation has appended to the durable log
LoggedThisRun == SubSeq(disk_log, Len(log) + 1, Len(disk_log))

\* the last n elements of a sequence
Suffix(s, n) == SubSeq(s, Len(s) - n + 1, Len(s))

\* a batch file that parses and holds the document record of identifier id
Covers(file, id) ==
    /\ file.kind = "xml"
    /\ \E k \in DOMAIN file.children : file.children[k] = Document(id)

\* every invocation so far was given the same chunk size
SameBatchSize == Cardinality(sizes) = 1

\* chunk j holds identifiers of the loaded log, but not only such
PartlyLogged(j) ==
    LET c == ToSet(read_id_chunk(document_batch, j))
    IN  /\ c \cap Pmcids(log) # {}
        /\ ~(c \subseteq Pmcids(log))

\* C1: a failed request of one chunk (network error, non-200 status, or a
\* body that is not XML) never aborts the run: once an invocation is over
\* without having been killed, every chunk of the source has had its cycle
\* and every failed chunk has its diagnostic.
C1_ChunkFailureNeverAborts ==
    (pc = "idle" /\ ended \in {"returned", "raised"}) =>
        /\ idx = NumChunks(document_batch)
        /\ failed \subseteq stderr

\* C2: a chunk of which the loaded log holds some but not all identifiers is
\* requested again, and when its response parses one row per identifier of
\* the chunk, with the chunk's index, is appended to the durable log.
C2_PartlyLoggedChunkIsRelogged ==
    (pc = "loop" /\ idx > 0 /\ PartlyLogged(idx - 1)) =>
        /\ (idx - 1) \in calls
        /\ ParseOK(response) =>
             LET c == read_id_chunk(document_batch, idx - 1)
             IN  /\ Len(LoggedThisRun) >= Len(c)
                 /\ Suffix(disk_log, Len(c)) = Assign(log, idx - 1, c)

\* C3: an invocation that follows, with the same chunk size, an invocation
\* all of whose requests succeeded issues no request.
C3_SecondRunIssuesNoRequest ==
    (runs >= 2 /\ prev.clean /\ prev.batch = document_batch) => calls = {}

\* C4: after an invocation all of whose requests returned a parsable body,
\* the log holds exactly one row per identifier of the source and no other
\* identifier (all invocations on the directory having used one chunk size).
C4_LogCompleteAfterSuccessfulRun ==
    (pc = "idle" /\ ended = "returned" /\ clean /\ SameBatchSize) =>
        /\ Pmcids(disk_log) = ToSet(ids_file)
        /\ \A id \in ToSet(ids_file) :
             Cardinality({i \in DOMAIN disk_log : disk_log[i].pmcid = id}) = 1

C7_FailedChunkLeavesNoTrace ==
    [][ (pc' = "loop" /\ idx \in failed' /\ idx \notin failed) =>
          (files' = pre /\ disk_log' = disk_log)
      ]_vars

\* -------------------------------------------------- properties of the merger
\* the document records in the output, in the order they were written
DocumentsWritten == SelectSeq(xml_file, LAMBDA w : w.tag = "document")

\* the document records of batch file f, serialized, in the file's order
RecordsIn(f) ==
    IF files[f].kind = "xml"
      THEN Serialized(SelectSeq(files[f].children,
                                LAMBDA c : c.tag = "document"))
      ELSE <<>>

\* the document records of the files order[k..], file after file
RECURSIVE RecordsOf(_, _)
RecordsOf(order, k) ==
    IF k > Len(order) THEN <<>>
    ELSE RecordsIn(order[k]) \o RecordsOf(order, k + 1)

Parsable == SelectSeq(batch_files, LAMBDA f : ParseOK(files[f]))

Unparsable == SelectSeq(batch_files, LAMBDA f : ~ParseOK(files[f]))

\* C8: whatever the temp directory holds, the finished output is a
\* well-formed container: the opening tag first, the closing tag last, and
\* neither of them anywhere else.
C8_OutputIsWellFormedContainer ==
    mpc = "done" =>
        /\ Len(xml_file) >= 2
        /\ xml_file[1] = OpenTag
        /\ xml_file[Len(xml_file)] = CloseTag
        /\ \A k \in 2..(Len(xml_file) - 1) : xml_file[k] \notin {OpenTag, CloseTag}

\* C9: the document records of the finished output are the document records
\* of the parsable files, file after file in processing order and in each
\* file's own order; with N parsable files of D records each that is N*D
\* records.
C9_MergeRoundTrip ==
    mpc = "done" =>
        /\ DocumentsWritten = RecordsOf(batch_files, 1)
        /\ \A D \in 0..MaxChildren :
             (\A k \in DOMAIN Parsable : Len(RecordsIn(Parsable[k])) = D)
                 => Len(DocumentsWritten) = Len(Parsable) * D

\* C9 witness: a finished merge of two parsable files of two records each
C9_Witness ==
    /\ mpc = "done"
    /\ Len(Parsable) = 2
    /\ \A k \in DOMAIN Parsable : Len(RecordsIn(Parsable[k])) = 2

\* C10: malformed files among the parsable ones never stop the merge; the
\* finished output holds the document records the merge of the parsable
\* files alone writes, and each malformed file has exactly one diagnostic.
C10_MergeFaultTolerance ==
    /\ mpc # "raised"
    /\ mpc = "done" =>
         LET alone == merge_loop(MergeState(<<>>, TRUE, <<>>), Parsable, 1)
         IN  /\ DocumentsWritten =
                  SelectSeq(alone.out, LAMBDA w : w.tag = "document")
             /\ alone.err = <<>>
             /\ merge_stderr = Unparsable

\* C10 witness: a finished merge that met a malformed file before a
\* parsable file holding a document record
C10_Witness ==
    /\ mpc = "done"
    /\ Len(batch_files) = 2
    /\ ~ParseOK(files[batch_files[1]])
    /\ ParseOK(files[batch_files[2]])
    /\ RecordsIn(batch_files[2]) # <<>>

\* what the output holds besides the two container tags and the document
\* records
HeaderWritten ==
    SelectSeq(xml_file, LAMBDA w : w.tag \notin {"document", OpenTag.tag, CloseTag.tag})

\* how many children of a root come before its first document record
RECURSIVE LeadingFields(_, _)
LeadingFields(children, k) ==
    IF k > Len(children) \/ children[k].tag = "document" THEN 0
    ELSE 1 + LeadingFields(children, k + 1)

\* C11: the finished output holds one header: the children of the first
\* file of the listing that parses, up to but excluding its first document
\* record (the date child with its text replaced), written right after the
\* opening tag; malformed files met earlier do not use up the header step,
\* and nothing else that is not a document record is written.
C11_HeaderOfFirstParsableFile ==
    mpc = "done" =>
        IF Parsable = <<>> THEN HeaderWritten = <<>>
        ELSE LET first == files[Parsable[1]].children
                 n == LeadingFields(first, 1)
             IN  /\ xml_file[1] = OpenTag
                 /\ Len(HeaderWritten) = n
                 /\ HeaderWritten = SubSeq(xml_file, 2, n + 1)
                 /\ \A k \in 1..n :
                      /\ HeaderWritten[k].tag = first[k].tag
                      /\ first[k].tag # "date" => HeaderWritten[k].text = first[k].text

\* C11 witness: a finished merge whose first file was malformed and whose
\* second file parses and has a header field
C11_Witness ==
    /\ mpc = "done"
    /\ Len(batch_files) = 2
    /\ ~ParseOK(files[batch_files[1]])
    /\ ParseOK(files[batch_files[2]])
    /\ LeadingFields(files[batch_files[2]].children, 1) > 0

\* C12: every date field of the output carries the date of the merge run;
\* no date text of a batch file is ever written.
C12_DateIsRunDate ==
    \A k \in DOMAIN xml_file : xml_file[k].tag = "date" => xml_file[k].text = today

\* C12 witness: a finished merge whose output has a date field, taken from
\* a file whose date differs from the run date
C12_Witness ==
    /\ mpc = "done"
    /\ \E k \in DOMAIN xml_file : xml_file[k].tag = "date"
    /\ \E c \in ToSet(files[Parsable[1]].children) : c.tag = "date" /\ c.text # today

\* ------------------------------------------- properties of the fetcher, 2
\* the current chunk has no identifier outside the loaded log
FullyInSnapshot == ToSet(Chunk) \subseteq Pmcids(log)

\* C14: a cycle whose chunk is wholly in the log snapshot issues no request,
\* leaves every batch file and the log as they are, and moves on to the
\* next chunk index.
C14_SkipHasNoEffect ==
    [][(pc = "loop" /\ idx < NumChunks(document_batch) /\ FullyInSnapshot)
          => /\ files' = files
             /\ disk_log' = disk_log
             /\ log_exists' = log_exists
             /\ calls' = calls
             /\ requested' = requested
             /\ ended' # "killed" => (pc' = "loop" /\ idx' = idx + 1)]_vars

\* C14 witness: a chunk was skipped and the chunk after it is requested
\* under the index it has in a run with no skips
C14_Witness ==
    /\ pc = "call"
    /\ idx > 0
    /\ (idx - 1) \notin calls
    /\ Chunk = read_id_chunk(document_batch, idx)
    /\ ToSet(read_id_chunk(document_batch, idx - 1)) \subseteq Pmcids(log)

\* C15: whatever step is taken, the rows the log held stay where they were
\* and any new rows come after them; a log that exists keeps existing.
C15_LogIsAppendOnly ==
    [][/\ log_exists => log_exists'
       /\ Len(disk_log') >= Len(disk_log)
       /\ \A k \in DOMAIN disk_log : disk_log'[k] = disk_log[k]]_vars

\* C15 witness: a run that found rows in the log has appended rows after
\* them
C15_Witness ==
    /\ pc = "loop"
    /\ Len(log) > 0
    /\ Len(disk_log) > Len(log)
    /\ SubSeq(disk_log, 1, Len(log)) = log

C16_TestSeesCurrentLog ==
    (pc = "loop" /\ idx < NumChunks(document_batch))
        => Pmcids(log) = Pmcids(disk_log)

\* C16 (amended): the membership test of every chunk of a run is made
\* against the log as it was loaded when the run started; the frame is
\* filled from the file at start-up and is the same at every later step
\* of the run, whatever the run appends to the file.
C16_TestSeesStartUpSnapshot ==
    [][/\ (pc = "idle" /\ pc' # "idle") => log' = disk_log'
       /\ (pc # "idle" /\ pc' # "idle") => log' = log]_vars

\* C16 witness: a membership test is about to be made while the file holds
\* rows, appended by this run, that the frame does not hold
C16_Witness ==
    /\ pc = "loop"
    /\ idx < NumChunks(document_batch)
    /\ LoggedThisRun # <<>>
    /\ ~(Pmcids(disk_log) \subseteq Pmcids(log))

\* C13: the run that follows a killed run of the same chunk size requests
\* no chunk that the killed run had written and gone past: of the chunks
\* whose response the killed run had written, only the one in flight at the
\* kill can be requested again.
C13_BoundedLostWork ==
    (runs > 1 /\ prev.killed /\ prev.batch = document_batch)
        => calls \cap prev.behind = {}

\* ------------------------------------------------ fetch, then merge (main)
\* lines 171-180: merge_full_text is called when download_full_text has
\* returned; here for the invocation that started on a temp directory that
\* did not exist
MainMerge ==
    /\ runs = 1
    /\ ended = "returned"
    /\ StartMerge

\* invocations of download_full_text, and the merge that follows the first
\* one
MainNext ==
    \/ Next
    \/ MainMerge
    \/ MergeFile
    \/ CloseCollection

MainSpec == Init /\ [][MainNext]_vars

\* the document records the service returned for chunk j, serialized as the
\* merger writes them
RecordsFetched(j) ==
    LET ids == read_id_chunk(document_batch, j)
    IN  [k \in DOMAIN ids |-> element_tostring(Document(ids[k]))]

\* the records of the chunks order[k..] whose response parsed, chunk after
\* chunk
RECURSIVE RecordsParsed(_, _)
RecordsParsed(order, k) ==
    IF k > Len(order) THEN <<>>
    ELSE (IF order[k] \in parsed THEN RecordsFetched(order[k]) ELSE <<>>)
             \o RecordsParsed(order, k + 1)

\* C19: after a fetch run on a fresh temp directory and the merge that
\* follows it, the document records of the output are the records of the
\* chunks whose response parsed, file after file in listing order; a chunk
\* whose response did not parse has left an empty batch file, which the
\* merger lists, reports once and passes over, and the merge finishes.
C19_FetchThenMerge ==
    mpc = "done" =>
        /\ ToSet(batch_files) = calls
        /\ DocumentsWritten = RecordsParsed(batch_files, 1)
        /\ \A j \in calls \ parsed :
              /\ files[j] = Empty
              /\ Len(SelectSeq(merge_stderr, LAMBDA f : f = j)) = 1
        /\ \A j \in parsed : j \notin ToSet(merge_stderr)

\* C19 witness: a finished merge after a run in which one response parsed
\* and another did not
C19_Witness ==
    /\ mpc = "done"
    /\ parsed # {}
    /\ calls \ parsed # {}

\* ------------------------------------------------ the rate limit of call_api
\* line 15: the window, in seconds
QUERY_RATE == 60 * 15

\* line 17: limits(calls=10000, ...), the quota of one window
clamped_calls == 10000

\* the amounts of time the clock is let advance by between two invocations
Delays == {QUERY_RATE \div 2, QUERY_RATE}

\* mutant: the window counts as elapsed only after its last second
window_elapsed_late(remaining) == remaining < 0

\* limits: the window has elapsed, the counter is reset
window_elapsed(remaining) == remaining <= 0

\* limits(calls, period) around call_api: one pass through the wrapper, from
\* the limiter state (n, e): reset if the window has elapsed, count the
\* attempt, raise RateLimitException(period_remaining) over the quota
limits(n, e) ==
    LET remaining == QUERY_RATE - e
        reset == window_elapsed(remaining)
        count == (IF reset THEN 0 ELSE n) + 1
    IN  [num_calls |-> count,
         elapsed |-> IF reset THEN 0 ELSE e,
         reset |-> reset,
         raised |-> count > clamped_calls,
         period_remaining |-> remaining]

\* one attempt of sleep_and_retry's loop: the request is sent, or the
\* RateLimitException is caught and the caller goes to sleep
Attempt ==
    LET r == limits(num_calls, elapsed)
    IN  /\ num_calls' = r.num_calls
        /\ elapsed' = r.elapsed
        /\ IF r.raised
             THEN /\ rpc' = "sleeping"
                  /\ period_remaining' = r.period_remaining
                  /\ sent' = IF r.reset THEN 0 ELSE sent
             ELSE /\ rpc' = "idle"
                  /\ sent' = (IF r.reset THEN 0 ELSE sent) + 1
                  /\ UNCHANGED period_remaining

\* line 85: call_api(query) is invoked
Invoke ==
    /\ rpc = "idle"
    /\ Attempt
    /\ UNCHANGED <<fetch_vars, merge_vars>>

\* sleep_and_retry: time.sleep(exception.period_remaining) returns
Sleep ==
    /\ rpc = "sleeping"
    /\ elapsed' = Min(elapsed + period_remaining, QUERY_RATE)
    /\ rpc' = "retry"
    /\ UNCHANGED <<num_calls, period_remaining, sent>>
    /\ UNCHANGED <<fetch_vars, merge_vars>>

\* sleep_and_retry: the loop calls the limited function again
Retry ==
    /\ rpc = "retry"
    /\ Attempt
    /\ UNCHANGED <<fetch_vars, merge_vars>>

\* time passes between two invocations; past the end of the window the
\* limiter does not tell how much
TimePasses ==
    /\ rpc = "idle"
    /\ elapsed < QUERY_RATE
    /\ \E d \in Delays : elapsed' = Min(elapsed + d, QUERY_RATE)
    /\ UNCHANGED <<rpc, num_calls, period_remaining, sent>>
    /\ UNCHANGED <<fetch_vars, merge_vars>>

RateNext ==
    \/ Invoke
    \/ Sleep
    \/ Retry
    \/ TimePasses

RateSpec == Init /\ [][RateNext]_vars

\* a step in which call_api's request goes out
RequestSent ==
    /\ rpc \in {"idle", "retry"}
    /\ rpc' = "idle"
    /\ (num_calls' # num_calls \/ elapsed' < elapsed)

\* C18: the requests are sent in windows that each last the full period and
\* each carry at most the quota of requests; an invocation is put to sleep
\* only when the quota of the running window is used up, it sleeps to the
\* end of that window, and its next attempt sends the request; an
\* invocation only ever sends, sleeps or retries.
C18_RateGate ==
    /\ [](sent <= clamped_calls /\ rpc \in {"idle", "sleeping", "retry"})
    /\ [][/\ RequestSent =>
                \/ (elapsed < QUERY_RATE /\ elapsed' = elapsed /\ sent' = sent + 1)
                \/ (elapsed >= QUERY_RATE /\ elapsed' = 0 /\ sent' = 1)
          /\ ~RequestSent => sent' = sent
          /\ (rpc = "idle" /\ rpc' = "sleeping")
                => (sent = clamped_calls /\ elapsed < QUERY_RATE)
          /\ rpc = "sleeping" => (rpc' = "retry" /\ elapsed' = QUERY_RATE)
          /\ rpc = "retry" => RequestSent]_vars

\* C18 witness: an invocation that found the quota used up has slept and
\* sent its request in the next window
C18_Witness ==
    /\ rpc = "idle"
    /\ period_remaining > 0
    /\ sent = 1
    /\ num_calls = 1

====
